---- MODULE Spec2Model ----
(***************************************************************************)
(* A model of opendc-analyze's MultiModel (models/MultiModel.py): the      *)
(* constructor's pipeline (metric check, output folder, run loading and    *)
(* per-timestamp aggregation, windowed aggregation), plot generation, and  *)
(* the pure functions the pipeline is built from.                          *)
(*                                                                         *)
(* Numbers.  Metric values are integers; np.mean and the y limit are       *)
(* modelled as exact rationals <<numerator, denominator>> in lowest terms  *)
(* with a positive denominator (float64 rounding is not modelled).         *)
(* Exceptions.  A call's outcome is a record [exc, val]: exc is "none" or  *)
(* the name of the Python exception the call raises.                       *)
(***************************************************************************)
EXTENDS Integers, Sequences, FiniteSets, TLC

VARIABLES
    pc,                 \* position of the caller: which call runs next
    input_metric,       \* __init__ argument
    window_size,        \* self.window_size (the __init__ argument)
    metric,             \* self.metric
    measure_unit,       \* self.measure_unit
    output_folder,      \* self.output_folder
    raw_models,         \* self.raw_models
    aggregated_models,  \* self.aggregated_models
    computed_data,      \* self.computed_data (created at line 40; <<>> before)
    err,                \* the exception that ended the running call, or "none"
    io,                 \* the file operations performed so far, in order
    listing,            \* what os.listdir returned (discovery order)
    y_lim,              \* the upper y limit handed to plt.ylim, or NoLim
    legend,             \* the (label, series) pairs handed to plt.plot
    call,               \* arguments of a direct call of a pure function
    ret                 \* outcome of that call

objVars == <<pc, input_metric, window_size, metric, measure_unit, output_folder,
             raw_models, aggregated_models, computed_data, err, io, listing,
             y_lim, legend>>
callVars == <<call, ret>>
vars == <<pc, input_metric, window_size, metric, measure_unit, output_folder,
          raw_models, aggregated_models, computed_data, err, io, listing,
          y_lim, legend, call, ret>>

(***************************************************************************)
(* Bounds of the model.                                                    *)
(***************************************************************************)
MaxLen == 5        \* longest series handed to mean_of_chunks directly
MaxWindow == 3     \* window sizes range over -MaxWindow .. MaxWindow
MaxRows == 3       \* most rows of a host table handed to the aggregation
MaxRuns == 2       \* most run directories under ./raw-output

SeriesValues == {0, 1, 3}
WindowSizes == (0 - MaxWindow) .. MaxWindow

None == "None"
NoExc == "none"

Return(v) == [exc |-> NoExc, val |-> v]
Raise(e) == [exc |-> e, val |-> <<>>]

Min(a, b) == IF a < b THEN a ELSE b
Max(a, b) == IF a > b THEN a ELSE b

(***************************************************************************)
(* Exact rationals: the values np.mean and "* 1.1" produce.                *)
(***************************************************************************)
RECURSIVE GCD(_, _)
GCD(a, b) == IF b = 0 THEN a ELSE GCD(b, a % b)

Abs(a) == IF a < 0 THEN 0 - a ELSE a

Rat(n, d) ==
    LET g == GCD(Abs(n), d)
    IN  IF n = 0 THEN <<0, 1>> ELSE <<n \div g, d \div g>>

RatLess(a, b) == a[1] * b[2] < b[1] * a[2]

RECURSIVE Sum(_)
Sum(s) == IF s = <<>> THEN 0 ELSE Head(s) + Sum(Tail(s))

\* np.mean of a non-empty array
np_mean(a) == Rat(Sum(a), Len(a))

(***************************************************************************)
(* Python built-ins used at line 177 and line 187.                         *)
(***************************************************************************)
\* range(start, stop, step): ValueError for step 0, else the arithmetic
\* progression from start up to (step > 0) or down to (step < 0) stop.
RangeDropsRemainder(start, stop, step) ==
    IF step = 0 THEN Raise("ValueError")
    ELSE IF step > 0
         THEN Return([k \in 1 .. (IF stop > start THEN (stop - start) \div step ELSE 0)
                        |-> start + (k - 1) * step])
         ELSE Return([k \in 1 .. (IF start > stop
                                  THEN (start - stop - step - 1) \div (0 - step) ELSE 0)
                        |-> start + (k - 1) * step])

Range(start, stop, step) ==
    IF step = 0 THEN Raise("ValueError")
    ELSE IF step > 0
         THEN Return([k \in 1 .. (IF stop > start
                                  THEN (stop - start + step - 1) \div step ELSE 0)
                        |-> start + (k - 1) * step])
         ELSE Return([k \in 1 .. (IF start > stop
                                  THEN (start - stop - step - 1) \div (0 - step) ELSE 0)
                        |-> start + (k - 1) * step])

\* a[lo:hi] on a 0-indexed array: negative bounds count from the end, and
\* both bounds are clamped to 0 .. len(a).
ClampIndex(i, n) == IF i < 0 THEN Max(i + n, 0) ELSE Min(i, n)

SliceOverlapping(a, lo, hi) ==
    SubSeq(a, ClampIndex(lo, Len(a)) + 1, ClampIndex(hi + 1, Len(a)))

Slice(a, lo, hi) ==
    SubSeq(a, ClampIndex(lo, Len(a)) + 1, ClampIndex(hi, Len(a)))

\* max(xs) over rationals: ValueError for an empty argument, else the first
\* greatest element.
RECURSIVE MaxOf(_)
MaxOf(xs) ==
    IF Len(xs) = 1 THEN xs[1]
    ELSE LET m == MaxOf(Tail(xs))
         IN  IF RatLess(xs[1], m) THEN m ELSE xs[1]

py_max(xs) == IF xs = <<>> THEN Raise("ValueError") ELSE Return(MaxOf(xs))

(***************************************************************************)
(* mean_of_chunks (lines 176-177).                                         *)
(***************************************************************************)
\* The slices np_array[i:i + window] for i in range(0, len(np_array), window)
Chunks(np_array, window) ==
    LET r == Range(0, Len(np_array), window)
    IN  IF r.exc # NoExc THEN Raise(r.exc)
        ELSE Return([k \in DOMAIN r.val |->
                        Slice(np_array, r.val[k], r.val[k] + window)])

mean_of_chunks(np_array, window) ==
    LET c == Chunks(np_array, window)
    IN  IF c.exc # NoExc THEN Raise(c.exc)
        ELSE Return([k \in DOMAIN c.val |-> np_mean(c.val[k])])

(***************************************************************************)
(* Host tables and the per-run aggregation (lines 102-104).                *)
(* A table is [dtype, rows]: dtype maps each column name to its dtype and  *)
(* every row maps each column name to a cell.                              *)
(***************************************************************************)
NumberDtypes == {"int64", "float64"}

Columns(df) == DOMAIN df.dtype

select_dtypes_all(df) == df

\* DataFrame.select_dtypes(include=[np.number]): keeps the numeric columns
select_dtypes_number(df) ==
    LET keep == {c \in Columns(df) : df.dtype[c] \in NumberDtypes}
    IN  [dtype |-> [c \in keep |-> df.dtype[c]],
         rows  |-> [i \in DOMAIN df.rows |-> [c \in keep |-> df.rows[i][c]]]]

RECURSIVE SortedSeq(_)
SortedSeq(S) ==
    IF S = {} THEN <<>>
    ELSE LET m == CHOOSE x \in S : \A y \in S : x <= y
         IN  <<m>> \o SortedSeq(S \ {m})

RECURSIVE FirstSeen(_)
FirstSeen(s) ==
    IF s = <<>> THEN <<>>
    ELSE LET rest == FirstSeen(SubSeq(s, 1, Len(s) - 1))
             x == s[Len(s)]
         IN  IF \E i \in DOMAIN rest : rest[i] = x THEN rest ELSE Append(rest, x)

\* The group keys of groupby(by) with sort=False: in order of first appearance
GroupKeysUnsorted(df, by) == FirstSeen([i \in DOMAIN df.rows |-> df.rows[i][by]])

\* The group keys of groupby(by): the distinct values of the column,
\* ascending (groupby sorts its keys by default)
GroupKeys(df, by) == SortedSeq({df.rows[i][by] : i \in DOMAIN df.rows})

\* The rows of one group, in table order, reduced to one column
RECURSIVE GroupCells(_, _, _, _)
GroupCells(rows, by, key, col) ==
    IF rows = <<>> THEN <<>>
    ELSE (IF Head(rows)[by] = key THEN <<Head(rows)[col]>> ELSE <<>>)
         \o GroupCells(Tail(rows), by, key, col)

\* df.select_dtypes(include=[np.number]).groupby("timestamp")[col].aggregate("sum"):
\* a Series [index, values], or KeyError when the grouping column or the
\* selected column is not among the numeric columns.
Aggregate(df, col) ==
    LET num == select_dtypes_number(df)
    IN  IF "timestamp" \notin Columns(num) THEN Raise("KeyError")
        ELSE IF col \notin Columns(num) THEN Raise("KeyError")
        ELSE LET keys == GroupKeys(num, "timestamp")
             IN  Return([index  |-> keys,
                         values |-> [k \in DOMAIN keys |->
                                       Sum(GroupCells(num.rows, "timestamp", keys[k], col))]])

(***************************************************************************)
(* Input domains for the host tables.                                      *)
(***************************************************************************)
FullSchema ==
    [timestamp |-> "int64", host_id |-> "object",
     power_draw |-> "float64", carbon_emission |-> "float64"]

Restrict(f, S) == [c \in S |-> f[c]]

Schemas ==
    { FullSchema,
      Restrict(FullSchema, {"timestamp", "power_draw", "carbon_emission"}),
      Restrict(FullSchema, {"timestamp", "host_id", "carbon_emission"}),
      Restrict(FullSchema, {"timestamp", "host_id", "power_draw"}),
      Restrict(FullSchema, {"timestamp", "host_id"}),
      Restrict(FullSchema, {"host_id", "power_draw", "carbon_emission"}),
      [FullSchema EXCEPT !.timestamp = "object"],
      [FullSchema EXCEPT !.power_draw = "object"] }

HostRows ==
    { [timestamp |-> t, host_id |-> "h", power_draw |-> v[1], carbon_emission |-> v[2]] :
        t \in {0, 1, 2}, v \in {<<1, 5>>, <<2, 3>>} }

SeqsUpTo(S, n) == UNION {[1 .. k -> S] : k \in 0 .. n}

MakeTable(schema, rows) ==
    [dtype |-> schema,
     rows  |-> [i \in DOMAIN rows |-> Restrict(rows[i], DOMAIN schema)]]

ValidMetrics == {"power_draw", "carbon_emission"}

R(t, p, c) == [timestamp |-> t, host_id |-> "h", power_draw |-> p, carbon_emission |-> c]

\* The host tables a run directory of ./raw-output may hold
RunTables ==
    { MakeTable(FullSchema, rows) :
        rows \in { <<>>,
                   <<R(0, 1, 5)>>,
                   <<R(1, 2, 3), R(0, 1, 5), R(1, 1, 5)>>,
                   <<R(0, 2, 3), R(1, 1, 5), R(2, 2, 3)>> } }
    \cup { MakeTable(Restrict(FullSchema, {"timestamp", "host_id", "carbon_emission"}),
                     <<R(0, 1, 5)>>),
           MakeTable([FullSchema EXCEPT !.timestamp = "object"], <<R(0, 1, 5)>>),
           MakeTable([FullSchema EXCEPT !.power_draw = "object"], <<R(0, 1, 5)>>) }

NoTable == MakeTable(<<>>, <<>>)

MetricNames == {"power_draw", "carbon_emission", "temperature", "Power_draw"}
CtorWindowSizes == (0 - 1) .. MaxWindow
RunDirs == 1 .. MaxRuns

NoLim == <<>>

(***************************************************************************)
(* The methods of MultiModel, as functions of what they read.              *)
(***************************************************************************)
\* check_and_set_metric (lines 50-54): the new (metric, measure_unit), or
\* ValueError with both left as they were
check_and_set_metric_defaulting(name) ==
    LET m == IF name \in {"power_draw", "carbon_emission"} THEN name ELSE "power_draw"
    IN  Return([metric |-> m,
                measure_unit |-> IF m = "power_draw" THEN "W" ELSE "gCO2"])

check_and_set_metric_swapped(name) ==
    IF name \notin {"power_draw", "carbon_emission"} THEN Raise("ValueError")
    ELSE Return([metric |-> name,
                 measure_unit |-> IF name = "carbon_emission" THEN "W" ELSE "gCO2"])

check_and_set_metric(name) ==
    IF name \notin {"power_draw", "carbon_emission"} THEN Raise("ValueError")
    ELSE Return([metric |-> name,
                 measure_unit |-> IF name = "power_draw" THEN "W" ELSE "gCO2"])

\* set_output_folder (lines 67-82): the folder and the analysis file it
\* opens for appending, or ValueError before anything is opened
set_output_folder(m) ==
    IF m = "power_draw"
    THEN Return([output_folder |-> "ENERGY_ANALYSIS_FOLDER_PATH",
                 file |-> "SIMULATION_ANALYSIS_FOLDER_NAME/ENERGY_ANALYSIS_FOLDER_NAME/analysis.txt"])
    ELSE IF m = "carbon_emission"
    THEN Return([output_folder |-> "EMISSIONS_ANALYSIS_FOLDER_PATH",
                 file |-> "SIMULATION_ANALYSIS_FOLDER_NAME/EMISSIONS_ANALYSIS_FOLDER_NAME/analysis.txt"])
    ELSE Raise("ValueError")

\* list.append (lines 99, 104, 121)
Prepend(list, x) == <<x>> \o list

ListAppend(list, x) == Append(list, x)

\* compute_windowed_aggregation (lines 114-121) on self.computed_data = []:
\* the list as the loop leaves it, and the exception that ended the loop
RECURSIVE WindowLoop(_, _, _)
WindowLoop(models, window, acc) ==
    IF models = <<>> THEN Return(acc)
    ELSE LET windowed_data == mean_of_chunks(Head(models).values, window)
         IN  IF windowed_data.exc # NoExc
             THEN [exc |-> windowed_data.exc, val |-> acc]
             ELSE WindowLoop(Tail(models), window, ListAppend(acc, windowed_data.val))

compute_windowed_aggregation(models, window) == WindowLoop(models, window, <<>>)

\* get_y_lim (lines 186-187): max([max(model) for model in data]) * 1.1
get_y_lim_default_zero(data) ==
    LET nonempty == SelectSeq(data, LAMBDA model : model # <<>>)
        m == py_max([i \in DOMAIN nonempty |-> py_max(nonempty[i]).val])
    IN  IF m.exc # NoExc THEN Return(<<0, 1>>)
        ELSE Return(Rat(11 * m.val[1], 10 * m.val[2]))

get_y_lim(data) ==
    LET inner == [i \in DOMAIN data |-> py_max(data[i])]
    IN  IF \E i \in DOMAIN inner : inner[i].exc # NoExc THEN Raise("ValueError")
        ELSE LET m == py_max([i \in DOMAIN inner |-> inner[i].val])
             IN  IF m.exc # NoExc THEN Raise(m.exc)
                 ELSE Return(Rat(11 * m.val[1], 10 * m.val[2]))

(***************************************************************************)
(* The constructor (lines 23-41) and generate_plot (lines 128-131).        *)
(***************************************************************************)
Ev(op, path, ok, host) == [op |-> op, path |-> path, ok |-> ok, host |-> host]

NoCall == [fn |-> "none", done |-> TRUE]

\* Lines 25-32: the fields as __init__ sets them before its first call
Init ==
    /\ pc = "check_and_set_metric"
    /\ input_metric \in MetricNames
    /\ window_size \in CtorWindowSizes
    /\ metric = None
    /\ measure_unit = None
    /\ output_folder = None
    /\ raw_models = <<>>
    /\ aggregated_models = <<>>
    /\ computed_data = <<>>
    /\ err = NoExc
    /\ io = <<>>
    /\ listing = <<>>
    /\ y_lim = NoLim
    /\ legend = <<>>
    /\ call = NoCall
    /\ ret = Return(<<>>)

\* Line 35
Ctor_check_and_set_metric ==
    /\ pc = "check_and_set_metric"
    /\ LET r == check_and_set_metric(input_metric)
       IN  IF r.exc # NoExc
           THEN /\ err' = r.exc
                /\ pc' = "failed"
                /\ UNCHANGED <<metric, measure_unit>>
           ELSE /\ metric' = r.val.metric
                /\ measure_unit' = r.val.measure_unit
                /\ pc' = "set_output_folder"
                /\ err' = err
    /\ UNCHANGED <<input_metric, window_size, output_folder, raw_models,
                   aggregated_models, computed_data, io, listing, y_lim, legend,
                   call, ret>>

\* Line 36: the folder is set, then analysis.txt is opened for appending;
\* the open raises FileNotFoundError when its directory does not exist
Ctor_set_output_folder ==
    /\ pc = "set_output_folder"
    /\ LET r == set_output_folder(metric)
       IN  IF r.exc # NoExc
           THEN /\ err' = r.exc
                /\ pc' = "failed"
                /\ UNCHANGED <<output_folder, io>>
           ELSE /\ output_folder' = r.val.output_folder
                /\ \E opened \in BOOLEAN :
                      /\ io' = Append(io, Ev("open", r.val.file, opened, NoTable))
                      /\ err' = IF opened THEN err ELSE "FileNotFoundError"
                      /\ pc' = IF opened THEN "init_models" ELSE "failed"
    /\ UNCHANGED <<input_metric, window_size, metric, measure_unit, raw_models,
                   aggregated_models, computed_data, listing, y_lim, legend,
                   call, ret>>

\* Line 95: os.listdir("./raw-output"), the run directories in the order
\* the file system yields them
Ctor_listdir ==
    /\ pc = "init_models"
    /\ \E dirs \in SeqsUpTo(RunDirs, MaxRuns) :
          /\ \A i, j \in DOMAIN dirs : i # j => dirs[i] # dirs[j]
          /\ listing' = dirs
    /\ io' = Append(io, Ev("listdir", "./raw-output", TRUE, NoTable))
    /\ pc' = "load_run"
    /\ UNCHANGED <<input_metric, window_size, metric, measure_unit, output_folder,
                   raw_models, aggregated_models, computed_data, err, y_lim,
                   legend, call, ret>>

RunPath(dir) == <<"./raw-output", dir, "seed=0/host.parquet">>

\* How many iterations of the loop at line 95 have begun: one read each
RunsRead == Len(SelectSeq(io, LAMBDA e : e.op = "read_parquet"))

\* Lines 96-104, one iteration of the loop over the listing: the table of
\* the next run directory is read (pd.read_parquet raises when the file is
\* missing or unreadable, recorded as FileNotFoundError), pushed raw,
\* aggregated and pushed
LoadRunSkippingUnreadable ==
    /\ pc = "load_run"
    /\ RunsRead < Len(listing)
    /\ LET simulation_folder == listing[RunsRead + 1]
       IN  \/ /\ io' = Append(io, Ev("read_parquet", RunPath(simulation_folder),
                                     FALSE, NoTable))
              /\ UNCHANGED <<err, pc, raw_models, aggregated_models>>
           \/ \E host \in RunTables :
                /\ io' = Append(io, Ev("read_parquet", RunPath(simulation_folder),
                                       TRUE, host))
                /\ raw_models' = ListAppend(raw_models, [host |-> host])
                /\ LET processed_raw_model == Aggregate(host, metric)
                   IN  IF processed_raw_model.exc # NoExc
                       THEN /\ err' = processed_raw_model.exc
                            /\ pc' = "failed"
                            /\ UNCHANGED aggregated_models
                       ELSE /\ aggregated_models' =
                                   ListAppend(aggregated_models, processed_raw_model.val)
                            /\ UNCHANGED <<err, pc>>
    /\ UNCHANGED <<input_metric, window_size, metric, measure_unit, output_folder,
                   computed_data, listing, y_lim, legend, call, ret>>

Ctor_load_run ==
    /\ pc = "load_run"
    /\ RunsRead < Len(listing)
    /\ LET simulation_folder == listing[RunsRead + 1]
       IN  \/ /\ io' = Append(io, Ev("read_parquet", RunPath(simulation_folder),
                                     FALSE, NoTable))
              /\ err' = "FileNotFoundError"
              /\ pc' = "failed"
              /\ UNCHANGED <<raw_models, aggregated_models>>
           \/ \E host \in RunTables :
                /\ io' = Append(io, Ev("read_parquet", RunPath(simulation_folder),
                                       TRUE, host))
                /\ raw_models' = ListAppend(raw_models, [host |-> host])
                /\ LET processed_raw_model == Aggregate(host, metric)
                   IN  IF processed_raw_model.exc # NoExc
                       THEN /\ err' = processed_raw_model.exc
                            /\ pc' = "failed"
                            /\ UNCHANGED aggregated_models
                       ELSE /\ aggregated_models' =
                                   ListAppend(aggregated_models, processed_raw_model.val)
                            /\ UNCHANGED <<err, pc>>
    /\ UNCHANGED <<input_metric, window_size, metric, measure_unit, output_folder,
                   computed_data, listing, y_lim, legend, call, ret>>

\* Lines 40-41, once the loop of init_models has run out: computed_data is
\* created and filled; the constructor then returns the object
Ctor_compute_windowed_aggregation ==
    /\ pc = "load_run"
    /\ RunsRead = Len(listing)
    /\ LET r == compute_windowed_aggregation(aggregated_models, window_size)
       IN  /\ computed_data' = r.val
           /\ err' = r.exc
           /\ pc' = IF r.exc # NoExc THEN "failed" ELSE "constructed"
    /\ UNCHANGED <<input_metric, window_size, metric, measure_unit, output_folder,
                   raw_models, aggregated_models, io, listing, y_lim, legend,
                   call, ret>>

\* Lines 138-147, the first call of generate_plot
Plot_setup_plot ==
    /\ pc = "constructed"
    /\ LET r == get_y_lim(computed_data)
       IN  IF r.exc # NoExc
           THEN /\ err' = r.exc
                /\ pc' = "generate_plot_failed"
                /\ UNCHANGED y_lim
           ELSE /\ y_lim' = r.val
                /\ pc' = "plot_processed_models"
                /\ err' = err
    /\ UNCHANGED <<input_metric, window_size, metric, measure_unit, output_folder,
                   raw_models, aggregated_models, computed_data, io, listing,
                   legend, call, ret>>

\* Lines 154-159: each series is plotted under its index as label
Plot_plot_processed_models ==
    /\ pc = "plot_processed_models"
    /\ legend' = [i \in DOMAIN computed_data |->
                     [label |-> i - 1, model |-> computed_data[i]]]
    /\ pc' = "save_plot"
    /\ UNCHANGED <<input_metric, window_size, metric, measure_unit, output_folder,
                   raw_models, aggregated_models, computed_data, err, io, listing,
                   y_lim, call, ret>>

\* Lines 166-169
Plot_save_plot ==
    /\ pc = "save_plot"
    /\ io' = Append(io, Ev("savefig", <<metric, window_size>>, TRUE, NoTable))
    /\ pc' = "plotted"
    /\ UNCHANGED <<input_metric, window_size, metric, measure_unit, output_folder,
                   raw_models, aggregated_models, computed_data, err, listing,
                   y_lim, legend, call, ret>>

Next ==
    \/ Ctor_check_and_set_metric
    \/ Ctor_set_output_folder
    \/ Ctor_listdir
    \/ Ctor_load_run
    \/ Ctor_compute_windowed_aggregation
    \/ Plot_setup_plot
    \/ Plot_plot_processed_models
    \/ Plot_save_plot

Spec == Init /\ [][Next]_vars

(***************************************************************************)
(* Direct calls of the pure functions on inputs drawn from bounded sets.   *)
(***************************************************************************)
NoObject ==
    /\ pc = "none"
    /\ input_metric = None
    /\ window_size = 1
    /\ metric = None
    /\ measure_unit = None
    /\ output_folder = None
    /\ raw_models = <<>>
    /\ aggregated_models = <<>>
    /\ computed_data = <<>>
    /\ err = NoExc
    /\ io = <<>>
    /\ listing = <<>>
    /\ y_lim = NoLim
    /\ legend = <<>>

InitReduce ==
    /\ NoObject
    /\ \E a \in SeqsUpTo(SeriesValues, MaxLen), w \in WindowSizes :
          call = [fn |-> "mean_of_chunks", np_array |-> a, window |-> w, done |-> FALSE]
    /\ ret = Return(<<>>)

Call_mean_of_chunks ==
    /\ call.fn = "mean_of_chunks"
    /\ ~call.done
    /\ ret' = mean_of_chunks(call.np_array, call.window)
    /\ call' = [call EXCEPT !.done = TRUE]
    /\ UNCHANGED objVars

SpecReduce == InitReduce /\ [][Call_mean_of_chunks]_vars

InitAgg ==
    /\ NoObject
    /\ \E schema \in Schemas, rows \in SeqsUpTo(HostRows, MaxRows), m \in ValidMetrics :
          call = [fn |-> "aggregate", host |-> MakeTable(schema, rows),
                  column |-> m, done |-> FALSE]
    /\ ret = Return(<<>>)

Call_aggregate ==
    /\ call.fn = "aggregate"
    /\ ~call.done
    /\ ret' = Aggregate(call.host, call.column)
    /\ call' = [call EXCEPT !.done = TRUE]
    /\ UNCHANGED objVars

SpecAgg == InitAgg /\ [][Call_aggregate]_vars

(***************************************************************************)
(* Properties.                                                             *)
(***************************************************************************)
Reduced == call.fn = "mean_of_chunks" /\ call.done

\* C1: for every series and every positive window size, mean_of_chunks
\* returns, without raising, exactly ceil(len(series) / window_size) values;
\* an empty series gives an empty result.
C1_LengthIsCeil ==
    (Reduced /\ call.window > 0) =>
        /\ ret.exc = NoExc
        /\ Len(ret.val) * call.window >= Len(call.np_array)
        /\ (Len(ret.val) - 1) * call.window < Len(call.np_array)
        /\ (call.np_array = <<>> => ret.val = <<>>)

C1_Witness ==
    /\ Reduced
    /\ call.window = 2
    /\ Len(call.np_array) = 5
    /\ Len(ret.val) = 3

RECURSIVE Flatten(_)
Flatten(ss) == IF ss = <<>> THEN <<>> ELSE Head(ss) \o Flatten(Tail(ss))

C3_NonPositiveWindowRaises ==
    (Reduced /\ call.window <= 0) => ret.exc # NoExc

\* C4: check_and_set_metric accepts exactly "power_draw" (unit "W") and
\* "carbon_emission" (unit "gCO2"); any other name raises the invalid-metric
\* ValueError and leaves metric and measure_unit unset.
C4_MetricResolution ==
    pc # "check_and_set_metric" =>
        IF input_metric = "power_draw"
        THEN metric = "power_draw" /\ measure_unit = "W"
             /\ (pc = "failed" => io # <<>>)
        ELSE IF input_metric = "carbon_emission"
        THEN metric = "carbon_emission" /\ measure_unit = "gCO2"
             /\ (pc = "failed" => io # <<>>)
        ELSE pc = "failed" /\ err = "ValueError" /\ io = <<>>
             /\ metric = None /\ measure_unit = None

C4_Witness ==
    /\ pc = "failed"
    /\ input_metric = "temperature"
    /\ err = "ValueError"
    /\ metric = None
    /\ measure_unit = None

\* C5: with an invalid metric name the constructor fails before any file
\* operation: analysis.txt is never opened, ./raw-output is never listed,
\* no run table is read and no windowed aggregation is computed.
C5_NoIoOnInvalidMetric ==
    input_metric \notin ValidMetrics =>
        /\ io = <<>>
        /\ listing = <<>>
        /\ raw_models = <<>>
        /\ aggregated_models = <<>>
        /\ computed_data = <<>>
        /\ output_folder = None
        /\ pc \in {"check_and_set_metric", "failed"}
        /\ (pc = "failed" => err = "ValueError")

C5_Witness ==
    /\ input_metric = "Power_draw"
    /\ pc = "failed"
    /\ err = "ValueError"
    /\ io = <<>>

FailedRead(e) == e.op = "read_parquet" /\ ~e.ok

\* C6: a run whose host table cannot be read, at any position of the
\* listing, ends the build with an error: nothing is read after it, the
\* constructor never returns an object, every earlier run was loaded (none
\* was skipped) and no windowed aggregation is computed.
C6_LoadFailureAborts ==
    \A i \in DOMAIN io :
        FailedRead(io[i]) =>
            /\ i = Len(io)
            /\ pc = "failed"
            /\ err = "FileNotFoundError"
            /\ computed_data = <<>>
            /\ Len(raw_models) = i - 3
            /\ \A j \in 3 .. (i - 1) : io[j].op = "read_parquet" /\ io[j].ok

C6_Witness ==
    /\ Len(listing) = 2
    /\ Len(io) = 4
    /\ io[3].op = "read_parquet" /\ io[3].ok
    /\ FailedRead(io[4])
    /\ Len(aggregated_models) = 1
    /\ pc = "failed"

RECURSIVE SumOverSet(_, _)
SumOverSet(S, rows) ==
    IF S = {} THEN 0
    ELSE LET i == CHOOSE x \in S : TRUE
         IN  rows[i][call.column] + SumOverSet(S \ {i}, rows)

Aggregated == call.fn = "aggregate" /\ call.done

\* C7: the per-run aggregation yields one value per distinct timestamp, the
\* sum of the metric over the rows with that timestamp, by strictly
\* increasing timestamp; every permutation of the rows gives the same result.
C7_SumPerTimestamp ==
    (Aggregated /\ ret.exc = NoExc) =>
        LET rows == call.host.rows
            index == ret.val.index
            values == ret.val.values
        IN  /\ Len(index) = Len(values)
            /\ {index[k] : k \in DOMAIN index} = {rows[i].timestamp : i \in DOMAIN rows}
            /\ \A k \in DOMAIN index : k < Len(index) => index[k] < index[k + 1]
            /\ \A k \in DOMAIN index :
                  values[k] = SumOverSet({i \in DOMAIN rows : rows[i].timestamp = index[k]},
                                         rows)
            /\ \A p \in Permutations(DOMAIN rows) :
                  Aggregate([call.host EXCEPT !.rows = [i \in DOMAIN rows |-> rows[p[i]]]],
                            call.column) = ret

C7_Witness ==
    /\ Aggregated
    /\ call.column = "power_draw"
    /\ Len(call.host.rows) = 3
    /\ ret.exc = NoExc
    /\ "host_id" \in Columns(call.host)
    /\ call.host.rows[1].timestamp = 1
    /\ call.host.rows[2].timestamp = 0
    /\ call.host.rows[3].timestamp = 1
    /\ ret.exc = NoExc
    /\ ret.val.index = <<0, 1>>
    /\ ret.val.values = <<2, 3>>

AllMeans ==
    UNION {{computed_data[i][j] : j \in DOMAIN computed_data[i]} : i \in DOMAIN computed_data}

NumericColumns(df) == {c \in Columns(df) : df.dtype[c] \in NumberDtypes}

GoodRead(e) == e.op = "read_parquet" /\ e.ok

\* C9 as stated: a loaded table without the metric column fails the build
\* with an error, and a table that has a timestamp column and the metric
\* column never fails in the aggregation, whatever the dtypes of its columns.
C9_AsStated ==
    \A i \in DOMAIN io :
        GoodRead(io[i]) =>
            IF metric \notin Columns(io[i].host)
            THEN i = Len(io) /\ pc = "failed" /\ err = "KeyError"
            ELSE "timestamp" \in Columns(io[i].host) =>
                    Len(aggregated_models) >= i - 2

\* C9, amended: a loaded table fails the build with KeyError, before any
\* windowed aggregation, exactly when the metric or timestamp is not among
\* its numeric columns (absent, or of a non-numeric dtype and so dropped);
\* other non-numeric columns are dropped and never make the aggregation fail.
C9_MissingNumericColumnAborts ==
    \A i \in DOMAIN io :
        GoodRead(io[i]) =>
            IF {metric, "timestamp"} \subseteq NumericColumns(io[i].host)
            THEN /\ Len(aggregated_models) >= i - 2
                 /\ (i = Len(io) => err # "KeyError")
            ELSE /\ i = Len(io)
                 /\ pc = "failed"
                 /\ err = "KeyError"
                 /\ Len(aggregated_models) = i - 3
                 /\ computed_data = <<>>

C9_Witness ==
    /\ Len(io) = 4
    /\ metric = "power_draw"
    /\ GoodRead(io[3])
    /\ "host_id" \in Columns(io[3].host)
    /\ Len(aggregated_models) = 1
    /\ GoodRead(io[4])
    /\ "power_draw" \notin Columns(io[4].host)
    /\ pc = "failed"
    /\ err = "KeyError"

Constructed == pc \in {"constructed", "plot_processed_models", "save_plot",
                       "plotted", "generate_plot_failed"}

C10_Aligned ==
    Constructed =>
        /\ Len(raw_models) = Len(listing)
        /\ Len(aggregated_models) = Len(listing)
        /\ Len(computed_data) = Len(listing)
        /\ \A i \in DOMAIN listing :
              /\ GoodRead(io[i + 2])
              /\ io[i + 2].path = RunPath(listing[i])
              /\ raw_models[i].host = io[i + 2].host
              /\ aggregated_models[i] = Aggregate(io[i + 2].host, metric).val
              /\ computed_data[i] =
                    mean_of_chunks(aggregated_models[i].values, window_size).val
        /\ \A i \in DOMAIN legend :
              legend[i] = [label |-> i - 1, model |-> computed_data[i]]
        /\ pc \in {"save_plot", "plotted"} => Len(legend) = Len(listing)

\* C10: after a successful construction raw_models, aggregated_models and
\* computed_data each hold one entry per listed run directory, the i-th
\* entries all derived from the i-th directory of the listing (the index
\* used as the plot's legend label); generate_plot changes none of them.
C10_IndexAlignment ==
    /\ []C10_Aligned
    /\ [][Constructed => UNCHANGED <<raw_models, aggregated_models, computed_data>>]_vars

C10_Witness ==
    /\ pc = "plotted"
    /\ Len(listing) = 2
    /\ listing[1] = 2
    /\ raw_models[1] # raw_models[2]
    /\ computed_data[1] # computed_data[2]
    /\ Len(legend) = 2

====
